---------------------------- MODULE Spec2Model ----------------------------
(* A model of the notebook io.ipynb: the Run-All execution of its cells     *)
(* (download, Cubeviz load, blackbody model fitting, spectral subsets,      *)
(* collapse to images), the careful-masking cell, and the pure array        *)
(* functions the cells are built from.  Library calls are modelled by the   *)
(* documented behaviour of the call as it is written in the cell.           *)
EXTENDS Integers, Sequences, FiniteSets, TLC

(***************************************************************************)
(* Bounds of the model                                                     *)
(***************************************************************************)
\* largest number of spectral subsets tried for n_subsets
MaxSubsets == 5
\* length of the spectral axis of the small cubes
NWave == 3
\* wavelengths of the small cubes are drawn from 1..MaxWave
MaxWave == 5
\* spatial shape of the small cubes (first and second array axis)
NX == 2
NY == 1
\* pixels that have masked samples in the bands given to collapse() alone
MaxMaskedPixels == 2
\* number of Run-All executions of the notebook in one behaviour
MaxRuns == 2

(***************************************************************************)
(* Numbers: a flux sample is a number or NaN; a wavelength boundary is a   *)
(* rational num/den (np.linspace divides the range by the band count).     *)
(***************************************************************************)
Num(v) == [nan |-> FALSE, val |-> v]
NaN == [nan |-> TRUE, val |-> 0]
\* IEEE addition as far as the cells need it: NaN is absorbing
Add(a, b) == IF a.nan \/ b.nan THEN NaN ELSE Num(a.val + b.val)

Rat(n, d) == [num |-> n, den |-> d]
RatLe(a, b) == a.num * b.den <= b.num * a.den
RatEq(a, b) == a.num * b.den = b.num * a.den
RatSub(a, b) == Rat(a.num * b.den - b.num * a.den, a.den * b.den)

RECURSIVE SeqMin(_)
SeqMin(s) ==
  IF Len(s) = 1 THEN s[1]
  ELSE LET m == SeqMin(Tail(s)) IN IF s[1] <= m THEN s[1] ELSE m

RECURSIVE SeqMax(_)
SeqMax(s) ==
  IF Len(s) = 1 THEN s[1]
  ELSE LET m == SeqMax(Tail(s)) IN IF s[1] >= m THEN s[1] ELSE m

(***************************************************************************)
(* Program constants                                                       *)
(***************************************************************************)
n_components == 3
T_sun == 5777
io_magma_temperature == 450
\* data.meta['DISPAXIS'] of the MIRI MRS product named by uri: the 0-based
\* index of the axis that collapse() reduces
DISPAXIS == 2

\* [f'BB{i}' for i in range(n_components)]
component_labels == <<"BB0", "BB1", "BB2">>
colnames == <<"temperature", "scale">>
fixed_parameters == {"temperature"}

VARIABLES
  pc,            \* the cell (or statement of a cell) that runs next
  error,         \* the exception that ended the run, "none" while running
  failed_at,     \* the stage that raised it
  executed,      \* the stages that have run (to completion or to their raise)
  run,           \* number of the current Run-All execution
  cached,        \* the file at local_path: 0 = absent, r = written in run r
  fetches,       \* number of retrievals from the archive so far
  file_cube,     \* the product behind uri: [wavelength, flux]
  data,          \* the cube in the Cubeviz data collection, <<>> before load
  fit_params,    \* Table rows: <<[temperature, scale], ...>>
  plugin,        \* model_components of the Model Fitting plugin
  ci,            \* position in the configuration loop: <<component, parameter>>
  api_log,       \* the plugin calls made so far, in order
  fit_calls,     \* calls of calculate_fit in this run
  fit_result,    \* the fitted composite model, <<>> before the fit
  n_subsets,     \* number of spectral subsets
  subset_edges,  \* np.linspace boundaries
  subset_bounds, \* [lo, hi] pairs
  subsets,       \* the subsets of the glue session, in creation order
  edit_subset,   \* edit_subset_mode.edit_subset: 0 = None, k = "Subset k"
  bandpasses,    \* the NDDataArrays retrieved per subset label
  collapsed_images,
  mask_dataset,  \* data_collection[2] of the second Cubeviz: the DQ array
  subset1,       \* "Subset 1" of the second Cubeviz: [drawn, pixels]
  exercises,     \* TRUE when the "Your code goes here" blocks are filled in
  source_spectrum,      \* NDDataArray [data, mask], <<>> while unassigned
  mask_nddata,          \* NDDataArray [data, mask] of the DQ array
  mask_writes,          \* assignments to source_spectrum.mask so far
  source_spectrum_ma,   \* masked array [data, mask], spatial axes swapped
  reductions,           \* the statements that consumed the mask, in order
  count,                \* valid samples per wavelength
  masked_spectrum_flux, \* corrected sum per wavelength
  coords,               \* centre of light per wavelength
  betas,                \* fit coefficients per pixel
  hotspot_mask          \* hotspot_distances.mask

vars == <<pc, error, failed_at, executed, run, cached, fetches, file_cube,
          data, fit_params, plugin, ci, api_log, fit_calls, fit_result,
          n_subsets, subset_edges, subset_bounds, subsets, edit_subset,
          bandpasses, collapsed_images,
          mask_dataset, subset1, exercises, source_spectrum, mask_nddata,
          mask_writes, source_spectrum_ma, reductions, count,
          masked_spectrum_flux, coords, betas, hotspot_mask>>


(***************************************************************************)
(* Cell "Download an observation from MAST" (Observations.download_file)   *)
(***************************************************************************)
\* download_file with cache=False: retrieved and written on every call
download_file_no_cache(cachedv, runv) == [fetch |-> TRUE, cached |-> runv]

\* download_file(uri, local_path=local_path) with its default cache=True:
\* a file found at local_path is returned as it is, nothing is retrieved
download_file(cachedv, runv) ==
  IF cachedv # 0
  THEN [fetch |-> FALSE, cached |-> cachedv]
  ELSE [fetch |-> TRUE, cached |-> runv]

(***************************************************************************)
(* Cell "model fitting": the plugin calls                                  *)
(***************************************************************************)
\* create_model_component called without looking at model_components
NeedsCreate_always(label, comps) == TRUE

\* `if label not in modelfit_plugin.model_components`
NeedsCreate(label, comps) == label \notin DOMAIN comps

\* create_model_component('BlackBody', label): a component with the model's
\* default parameters, none of them fixed
create_model_component(comps, label) ==
  (label :> [temperature |-> [value |-> 5000, fixed |-> FALSE],
             scale |-> [value |-> 1, fixed |-> FALSE]]) @@ comps

\* `fixed=parameter not in fixed_parameters`
IsFixed_inverted(parameter) == parameter \notin fixed_parameters

\* `fixed=parameter in fixed_parameters`
IsFixed(parameter) == parameter \in fixed_parameters

\* set_model_component(label, parameter, value=..., fixed=...)
set_model_component(comps, label, parameter, value, fixed) ==
  [comps EXCEPT ![label][parameter] = [value |-> value, fixed |-> fixed]]

\* calculate_fit(): least squares over the free parameters only; d[label] is
\* the change the optimizer makes to a free parameter of that component
FittedValue(par, d) == IF par.fixed THEN par.value ELSE par.value + d

calculate_fit(comps, d) ==
  [l \in DOMAIN comps |->
     [temperature |-> FittedValue(comps[l].temperature, d[l]),
      scale |-> FittedValue(comps[l].scale, d[l])]]

(***************************************************************************)
(* Cell "spectral subsets": np.linspace, XRangeROI, get_subset_object      *)
(***************************************************************************)
\* np.linspace with endpoint=False: the range divided by num
linspace_no_endpoint(start, stop, num) ==
  [i \in 1..num |-> Rat(start * num + (i - 1) * (stop - start), num)]

\* np.linspace(start, stop, num): num samples, endpoint included
linspace(start, stop, num) ==
  LET div == num - 1
  IN [i \in 1..num |-> Rat(start * div + (i - 1) * (stop - start), div)]

\* [subset_edges[i:i+2] for i in range(n_subsets)]
bounds_of(edges, n) == [i \in 1..n |-> <<edges[i], edges[i + 1]>>]

\* a half-open range, lo <= x < hi
InRange_half_open(w, lo, hi) ==
  RatLe(lo, Rat(w, 1)) /\ ~RatLe(hi, Rat(w, 1))

\* the subset state apply_roi makes of XRangeROI(lo, hi) selects lo <= x <= hi
InRange(w, lo, hi) == RatLe(lo, Rat(w, 1)) /\ RatLe(Rat(w, 1), hi)

\* the edit target left as the previous selection set it
ResetEditSubset_keep(e) == e

\* `edit_subset_mode.edit_subset = None`
ResetEditSubset(e) == 0

\* apply_roi: with no subset being edited a new subset is appended (labelled
\* "Subset <count>") and becomes the edited one; otherwise the edited
\* subset's state is replaced
apply_roi(subs, e, lim) ==
  IF e = 0
  THEN [subsets |-> Append(subs, lim), edit |-> Len(subs) + 1]
  ELSE [subsets |-> [subs EXCEPT ![e] = lim], edit |-> e]

\* data.get_subset_object(label, cls=NDDataArray): the whole cube, masked
\* (mask = True) wherever the subset does not select the sample
get_subset_object(cube, lim) ==
  [data |-> cube.flux,
   mask |-> [a \in 1..Len(cube.flux) |->
              [b \in 1..Len(cube.flux[a]) |->
                [k \in 1..Len(cube.flux[a][b]) |->
                   ~InRange(cube.wavelength[k], lim[1], lim[2])]]]]

(***************************************************************************)
(* Cell "collapse"                                                         *)
(***************************************************************************)
Shape(c) == <<Len(c), Len(c[1]), Len(c[1][1])>>

\* element of a 3-D array at position t along `axis` and (a, b) along the
\* two other axes, in order
Elem(c, axis, a, b, t) ==
  CASE axis = 0 -> c[t][a][b]
    [] axis = 1 -> c[a][t][b]
    [] axis = 2 -> c[a][b][t]

RestShape(sh, axis) ==
  CASE axis = 0 -> <<sh[2], sh[3]>>
    [] axis = 1 -> <<sh[1], sh[3]>>
    [] axis = 2 -> <<sh[1], sh[2]>>

\* a plain sum: the masked samples are added like the others
Filled_keep(v, masked) == v

\* the value np.ma.sum adds for one sample: masked samples are filled with 0
Filled(v, masked) == IF masked THEN Num(0) ELSE v

RECURSIVE SumTo(_, _, _, _, _, _)
SumTo(c, m, axis, a, b, n) ==
  IF n = 0 THEN Num(0)
  ELSE Add(SumTo(c, m, axis, a, b, n - 1),
           Filled(Elem(c, axis, a, b, n), Elem(m, axis, a, b, n)))

\* np.ma.sum(masked_quantity, axis): sums of the unmasked samples; a result
\* element is masked iff every sample along the axis is masked
ma_sum(band, axis) ==
  LET sh == Shape(band.data)
      rs == RestShape(sh, axis)
      n == sh[axis + 1]
  IN [data |-> [a \in 1..rs[1] |-> [b \in 1..rs[2] |->
                  SumTo(band.data, band.mask, axis, a, b, n)]],
      mask |-> [a \in 1..rs[1] |-> [b \in 1..rs[2] |->
                  \A t \in 1..n : Elem(band.mask, axis, a, b, t)]]]

\* `.T` of a 2-D array
Transpose(img) ==
  [b \in 1..Len(img[1]) |-> [a \in 1..Len(img) |-> img[a][b]]]

\* A celestial WCS, as far as axis order goes: the world axis that each
\* pixel axis (FITS order, first axis first) runs along.  The header of the
\* product has RA on axis 1 and Dec on axis 2.
wcs_celestial == <<"ra", "dec">>

\* WCS.swapaxes(ax0, ax1) (axes counted from 0): the two axes change places
wcs_swapaxes(w, ax0, ax1) ==
  [i \in 1..Len(w) |->
     IF i = ax0 + 1 THEN w[ax1 + 1] ELSE IF i = ax1 + 1 THEN w[ax0 + 1]
     ELSE w[i]]

\* the default of collapse()'s force_wcs argument
force_wcs == wcs_swapaxes(wcs_celestial, 1, 0)

\* collapse along the first array axis instead of the dispersion axis
collapse_first_axis(band) ==
  LET collapsed_image == ma_sum(band, 0)
  IN [data |-> Transpose(collapsed_image.data),
      mask |-> Transpose(collapsed_image.mask),
      wcs |-> force_wcs]

\* collapse(band): NDDataArray(collapsed_image.T, wcs=force_wcs)
collapse(band) ==
  LET collapsed_image == ma_sum(band, DISPAXIS)
  IN [data |-> Transpose(collapsed_image.data),
      mask |-> Transpose(collapsed_image.mask),
      wcs |-> force_wcs]


(***************************************************************************)
(* The cells in Run-All order                                              *)
(***************************************************************************)
Stages ==
  <<"download", "load", "params", "config", "fit", "extract", "colors",
    "edges", "bands", "wcs", "collapse", "imviz", "ephemeris", "cubeviz2",
    "stats">>

StageIdx(s) == CHOOSE i \in 1..Len(Stages) : Stages[i] = s

\* the statements of the statistics cells
StatPcs ==
  {"st_get", "st_mask", "st_swap", "st_nan", "st_count", "st_nansum",
   "st_means", "st_centroid", "st_slope"}

StageOf(p) ==
  CASE p \in {"bands_roi", "bands_get"} -> "bands"
    [] p \in StatPcs -> "stats"
    [] OTHER -> p

EntryPc(s) == IF s = "bands" THEN "bands_roi" ELSE s

NextStagePc(s) ==
  IF StageIdx(s) = Len(Stages) THEN "done" ELSE EntryPc(Stages[StageIdx(s) + 1])

\* cells whose effect on the modelled state is none (plots, viewers, colours,
\* WCS, the ephemeris query, the second Cubeviz and the statistics cells,
\* which SpecStats models statement by statement)
OpaqueStages ==
  {"extract", "colors", "wcs", "imviz", "ephemeris", "cubeviz2", "stats"}

\* the errors a stage's library calls raise
ErrorsOf(s) ==
  CASE s = "download" -> {"ResourceUnavailable"}
    [] s \in {"load", "params"} -> {"FormatError"}
    [] s = "fit" -> {"FitDidNotConverge"}
    [] s = "ephemeris" -> {"ResourceUnavailable", "InvalidQuery"}
    [] OTHER -> {"Exception"}

\* an exception that is caught and passed over: the next cell runs
NextPcOnError_swallow(s) == NextStagePc(s)

\* no cell has a try/except: an exception ends the cell and Run All stops
NextPcOnError(s) == "halted"

Raise(s, err) ==
  /\ pc' = NextPcOnError(s)
  /\ error' = IF error = "none" THEN err ELSE error
  /\ failed_at' = IF error = "none" THEN s ELSE failed_at
  /\ executed' = executed \cup {s}

Done(s) == executed' = executed \cup {s}

(***************************************************************************)
(* Inputs                                                                  *)
(***************************************************************************)
\* spectral axes: strictly increasing wavelengths
IsIncreasing(w) == \A i \in 1..(Len(w) - 1) : w[i] < w[i + 1]
Axes(n, maxw) == {w \in [1..n -> 1..maxw] : IsIncreasing(w)}

OnesFlux(nx, ny, nw) ==
  [a \in 1..nx |-> [b \in 1..ny |-> [k \in 1..nw |-> Num(1)]]]
\* distinct values everywhere, and one NaN sample as the archive product has
RampFlux(nx, ny, nw) ==
  [a \in 1..nx |-> [b \in 1..ny |-> [k \in 1..nw |->
     IF a = 1 /\ b = 1 /\ k = 1 THEN NaN ELSE Num(4 * a + 2 * b + k)]]]

FileCubes ==
  {[wavelength |-> w, flux |-> f] :
     w \in Axes(NWave, MaxWave),
     f \in {OnesFlux(NX, NY, NWave), RampFlux(NX, NY, NWave)}}

\* io_equilibrium_temperature = T_sun * sqrt(rstar_over_a / 2) depends on the
\* ephemeris at MJD-BEG; two values stand for it
EquilibriumTemperatures == {110, 130}
\* the analytic scale factors, as stand-in integers (surface >> magma, light)
expected_scales == <<30, 1, 2>>

\* the values the optimizer may add to a free parameter
FitDeltas == {0, 1}

\* the names the statistics cells assign, before those cells run
StatsKernelInit ==
  /\ source_spectrum = <<>>
  /\ mask_nddata = <<>>
  /\ mask_writes = 0
  /\ source_spectrum_ma = <<>>
  /\ reductions = <<>>
  /\ count = <<>>
  /\ masked_spectrum_flux = <<>>
  /\ coords = <<>>
  /\ betas = <<>>
  /\ hotspot_mask = <<>>

KernelInit ==
  /\ pc = "download"
  /\ StatsKernelInit
  /\ error = "none"
  /\ failed_at = "none"
  /\ executed = {}
  /\ data = <<>>
  /\ fit_params = <<>>
  /\ plugin = <<>>
  /\ ci = <<1, 0>>
  /\ api_log = <<>>
  /\ fit_calls = 0
  /\ fit_result = <<>>
  /\ subset_edges = <<>>
  /\ subset_bounds = <<>>
  /\ subsets = <<>>
  /\ edit_subset = 0
  /\ bandpasses = <<>>
  /\ collapsed_images = <<>>

\* Run All with nobody at the viewers: no subset is drawn in the second
\* Cubeviz and the exercise blocks are as shipped
NoInteraction ==
  /\ mask_dataset = <<>>
  /\ subset1 = [drawn |-> FALSE, pixels |-> {}]
  /\ exercises = FALSE

Init ==
  /\ KernelInit
  /\ run = 1
  /\ cached = 0
  /\ fetches = 0
  /\ file_cube \in FileCubes
  /\ n_subsets \in 1..MaxSubsets
  /\ NoInteraction


ctlVars == <<error, failed_at>>
statInVars == <<mask_dataset, subset1, exercises>>
statVars == <<source_spectrum, mask_nddata, mask_writes, source_spectrum_ma,
              reductions, count, masked_spectrum_flux, coords, betas,
              hotspot_mask>>
fsVars == <<cached, fetches>>
inVars == <<file_cube, n_subsets>>
fitVars == <<fit_params, plugin, ci, api_log, fit_calls, fit_result>>
subVars == <<subset_edges, subset_bounds, subsets, edit_subset, bandpasses>>

(***************************************************************************)
(* Actions: one per cell, the loops one per statement group                *)
(***************************************************************************)
\* result = Observations.download_file(uri, local_path=local_path)
Download ==
  /\ pc = "download"
  /\ UNCHANGED <<statInVars, statVars>>
  /\ LET r == download_file(cached, run)
     IN \/ /\ cached' = r.cached
           /\ fetches' = IF r.fetch THEN fetches + 1 ELSE fetches
           /\ pc' = NextStagePc("download")
           /\ Done("download")
           /\ UNCHANGED ctlVars
        \/ /\ r.fetch
           /\ Raise("download", "ResourceUnavailable")
           /\ UNCHANGED fsVars
  /\ UNCHANGED <<run, data, collapsed_images>>
  /\ UNCHANGED <<inVars, fitVars, subVars>>

\* cubeviz = Cubeviz(); cubeviz.load_data(local_path)
Load ==
  /\ pc = "load"
  /\ UNCHANGED <<statInVars, statVars>>
  /\ cached # 0
  /\ data' = file_cube
  /\ pc' = NextStagePc("load")
  /\ Done("load")
  /\ UNCHANGED <<ctlVars, run, fsVars, inVars, fitVars, subVars,
                 collapsed_images>>

\* temperatures, expected_scales, fit_params = Table(...)
Params ==
  /\ pc = "params"
  /\ UNCHANGED <<statInVars, statVars>>
  /\ \E teq \in EquilibriumTemperatures :
       LET temperatures == <<teq, io_magma_temperature, T_sun>>
       IN fit_params' = [i \in 1..n_components |->
                           [temperature |-> temperatures[i],
                            scale |-> expected_scales[i]]]
  /\ pc' = NextStagePc("params")
  /\ Done("params")
  /\ UNCHANGED <<ctlVars, run, fsVars, inVars, data, plugin, ci, api_log,
                 fit_calls, fit_result, subVars, collapsed_images>>

\* `if label not in model_components: create_model_component(model, label)`
ConfigCreate ==
  /\ pc = "config"
  /\ UNCHANGED <<statInVars, statVars>>
  /\ ci[2] = 0
  /\ LET label == component_labels[ci[1]]
     IN IF NeedsCreate(label, plugin)
        THEN /\ plugin' = create_model_component(plugin, label)
             /\ api_log' = Append(api_log,
                  [op |-> "create", label |-> label, param |-> ""])
        ELSE UNCHANGED <<plugin, api_log>>
  /\ ci' = <<ci[1], 1>>
  /\ Done("config")
  /\ UNCHANGED <<pc, ctlVars, run, fsVars, inVars, data, fit_params,
                 fit_calls, fit_result, subVars, collapsed_images>>

\* calculate_fit() indented into the loop body: reached after each component
LoopExit_in_body(i, last) == last

\* the configuration loop ends, and calculate_fit() is reached, after the
\* last parameter of the last component
LoopExit(i, last) == last /\ i = n_components

\* `for parameter in params.colnames: set_model_component(...)`; the plugin
\* raises for a label it has no component for
ConfigSet ==
  /\ pc = "config"
  /\ UNCHANGED <<statInVars, statVars>>
  /\ ci[2] \in 1..Len(colnames)
  /\ LET label == component_labels[ci[1]]
         parameter == colnames[ci[2]]
         last == ci[2] = Len(colnames)
     IN IF label \in DOMAIN plugin
        THEN /\ plugin' = set_model_component(plugin, label, parameter,
                            fit_params[ci[1]][parameter], IsFixed(parameter))
             /\ api_log' = Append(api_log,
                  [op |-> "set", label |-> label, param |-> parameter])
             /\ ci' = IF ~last THEN <<ci[1], ci[2] + 1>>
                      ELSE IF ci[1] < n_components THEN <<ci[1] + 1, 0>>
                      ELSE ci
             /\ pc' = IF LoopExit(ci[1], last)
                      THEN NextStagePc("config") ELSE pc
             /\ Done("config")
             /\ UNCHANGED ctlVars
        ELSE /\ Raise("config", "Exception")
             /\ UNCHANGED <<plugin, api_log, ci>>
  /\ UNCHANGED <<run, fsVars, inVars, data, fit_params, fit_calls,
                 fit_result, subVars, collapsed_images>>

\* calculate_fit called again when the fit did not converge
FitNextPc_retry(converged) ==
  IF converged THEN NextStagePc("fit") ELSE "fit"

\* where the run goes after `result, spectrum = calculate_fit()`: the call
\* is the cell's last statement and is not inside a loop or a try
FitNextPc(converged) ==
  IF converged THEN NextStagePc("fit") ELSE NextPcOnError("fit")

CalculateFit ==
  /\ pc = "fit"
  /\ UNCHANGED <<statInVars, statVars>>
  /\ fit_calls' = fit_calls + 1
  /\ api_log' = Append(api_log, [op |-> "fit", label |-> "", param |-> ""])
  /\ executed' = executed \cup {"fit"}
  /\ \/ /\ \E d \in [DOMAIN plugin -> FitDeltas] :
             fit_result' = calculate_fit(plugin, d)
        /\ pc' = FitNextPc(TRUE)
        /\ UNCHANGED ctlVars
     \/ /\ pc' = FitNextPc(FALSE)
        /\ error' = IF error = "none" THEN "FitDidNotConverge" ELSE error
        /\ failed_at' = IF error = "none" THEN "fit" ELSE failed_at
        /\ UNCHANGED fit_result
  /\ UNCHANGED <<run, fsVars, inVars, data, fit_params, plugin, ci, subVars,
                 collapsed_images>>

\* subset_edges = np.linspace(...); subset_bounds = [...]
Edges ==
  /\ pc = "edges"
  /\ UNCHANGED <<statInVars, statVars>>
  /\ LET wavelength == data.wavelength
         edges == linspace(SeqMin(wavelength), SeqMax(wavelength),
                           n_subsets + 1)
     IN /\ subset_edges' = edges
        /\ subset_bounds' = bounds_of(edges, n_subsets)
  /\ pc' = NextStagePc("edges")
  /\ Done("edges")
  /\ UNCHANGED <<ctlVars, run, fsVars, inVars, data, fitVars, subsets,
                 edit_subset, bandpasses, collapsed_images>>

\* edit_subset = None; spectrum_viewer.apply_roi(XRangeROI(*limits))
BandRoi ==
  /\ pc = "bands_roi"
  /\ UNCHANGED <<statInVars, statVars>>
  /\ LET k == Len(bandpasses) + 1
         r == apply_roi(subsets, ResetEditSubset(edit_subset),
                        subset_bounds[k])
     IN /\ subsets' = r.subsets
        /\ edit_subset' = r.edit
  /\ pc' = "bands_get"
  /\ Done("bands")
  /\ UNCHANGED <<ctlVars, run, fsVars, inVars, data, fitVars, subset_edges,
                 subset_bounds, bandpasses, collapsed_images>>

\* bandpasses.append(data.get_subset_object(subset_label, cls=NDDataArray));
\* a label no subset has raises
BandGet ==
  /\ pc = "bands_get"
  /\ UNCHANGED <<statInVars, statVars>>
  /\ LET k == Len(bandpasses) + 1
     IN IF k <= Len(subsets)
        THEN /\ bandpasses' =
                  Append(bandpasses, get_subset_object(data, subsets[k]))
             /\ pc' = IF k = n_subsets THEN NextStagePc("bands")
                      ELSE "bands_roi"
             /\ Done("bands")
             /\ UNCHANGED ctlVars
        ELSE /\ Raise("bands", "Exception")
             /\ UNCHANGED bandpasses
  /\ UNCHANGED <<run, fsVars, inVars, data, fitVars, subset_edges,
                 subset_bounds, subsets, edit_subset, collapsed_images>>

\* collapsed_images = [collapse(band) for band in bandpasses]
Collapse ==
  /\ pc = "collapse"
  /\ UNCHANGED <<statInVars, statVars>>
  /\ collapsed_images' =
       [k \in 1..Len(bandpasses) |-> collapse(bandpasses[k])]
  /\ pc' = NextStagePc("collapse")
  /\ Done("collapse")
  /\ UNCHANGED <<ctlVars, run, fsVars, inVars, data, fitVars, subVars>>

\* a cell without effect on the modelled state
Opaque ==
  /\ pc \in OpaqueStages
  /\ UNCHANGED <<statInVars, statVars>>
  /\ pc' = NextStagePc(pc)
  /\ Done(pc)
  /\ UNCHANGED <<ctlVars, run, fsVars, inVars, data, fitVars, subVars,
                 collapsed_images>>

\* a library call of the current cell raises
Fail ==
  /\ pc \notin {"done", "halted", "download", "fit"}
  /\ UNCHANGED <<statInVars, statVars>>
  /\ \E err \in ErrorsOf(StageOf(pc)) : Raise(StageOf(pc), err)
  /\ UNCHANGED <<run, fsVars, inVars, data, fitVars, subVars,
                 collapsed_images>>

\* the notebook is run again in a fresh kernel; the temporary directory and
\* the archive are what they were
Restart ==
  /\ pc \in {"done", "halted"}
  /\ UNCHANGED <<statInVars, statVars>>
  /\ run < MaxRuns
  /\ run' = run + 1
  /\ pc' = "download"
  /\ error' = "none"
  /\ failed_at' = "none"
  /\ executed' = {}
  /\ data' = <<>>
  /\ fit_params' = <<>>
  /\ plugin' = <<>>
  /\ ci' = <<1, 0>>
  /\ api_log' = <<>>
  /\ fit_calls' = 0
  /\ fit_result' = <<>>
  /\ subset_edges' = <<>>
  /\ subset_bounds' = <<>>
  /\ subsets' = <<>>
  /\ edit_subset' = 0
  /\ bandpasses' = <<>>
  /\ collapsed_images' = <<>>
  /\ UNCHANGED <<fsVars, inVars>>

Next ==
  \/ Download
  \/ Load
  \/ Params
  \/ ConfigCreate
  \/ ConfigSet
  \/ CalculateFit
  \/ Edges
  \/ BandRoi
  \/ BandGet
  \/ Collapse
  \/ Opaque
  \/ Fail
  \/ Restart

Spec == Init /\ [][Next]_vars


(***************************************************************************)
(* Properties of the spectral subsets                                      *)
(***************************************************************************)
EdgesComputed == subset_bounds # <<>>
BandsRetrieved == bandpasses # <<>> /\ Len(bandpasses) = n_subsets
WMin == SeqMin(file_cube.wavelength)
WMax == SeqMax(file_cube.wavelength)
RatLt(a, b) == ~RatLe(b, a)

\* C1: for every n_subsets >= 1 and every spectral axis there are exactly
\* n_subsets bands and n_subsets + 1 boundaries, linearly spaced from the
\* minimum to the maximum wavelength; band i ends where band i + 1 starts,
\* the first starts at the minimum, the last ends at the maximum, and every
\* wavelength of the range lies in a band (no gaps).
C1_BandsPartitionRange ==
  EdgesComputed =>
    /\ Len(subset_bounds) = n_subsets
    /\ Len(subset_edges) = n_subsets + 1
    /\ \A i \in 1..n_subsets :
         /\ subset_bounds[i] = <<subset_edges[i], subset_edges[i + 1]>>
         /\ RatEq(RatSub(subset_edges[i + 1], subset_edges[i]),
                  Rat(WMax - WMin, n_subsets))
    /\ \A i \in 1..(n_subsets - 1) :
         RatEq(subset_bounds[i][2], subset_bounds[i + 1][1])
    /\ RatEq(subset_bounds[1][1], Rat(WMin, 1))
    /\ RatEq(subset_bounds[n_subsets][2], Rat(WMax, 1))
    /\ \A v \in WMin..WMax : \E i \in 1..n_subsets :
         RatLe(subset_bounds[i][1], Rat(v, 1))
           /\ RatLe(Rat(v, 1), subset_bounds[i][2])

C1_Witness ==
  /\ EdgesComputed
  /\ n_subsets = MaxSubsets
  /\ WMax - WMin > 2

\* band i selects spectral sample k at every spatial pixel / at none
Selects(i, k) ==
  \A a \in 1..Len(bandpasses[i].mask) :
    \A b \in 1..Len(bandpasses[i].mask[a]) : ~bandpasses[i].mask[a][b][k]
Excludes(i, k) ==
  \A a \in 1..Len(bandpasses[i].mask) :
    \A b \in 1..Len(bandpasses[i].mask[a]) : bandpasses[i].mask[a][b][k]
Samples == 1..Len(file_cube.wavelength)
Wl(k) == Rat(file_cube.wavelength[k], 1)

Labels == {component_labels[i] : i \in 1..n_components}
LogIdx == 1..Len(api_log)
ConfigLoopDone == pc = "fit" \/ "fit" \in executed

\* C5: after the configuration loop each of the three components has its
\* temperature fixed and its scale free, both at the values of fit_params,
\* and the fitted model keeps every component's temperature at the initial
\* temperature set for it.
C5_TemperatureFixedScaleFree ==
  ConfigLoopDone =>
    /\ DOMAIN plugin = Labels
    /\ \A i \in 1..n_components :
         LET c == plugin[component_labels[i]]
         IN /\ c.temperature.fixed
            /\ ~c.scale.fixed
            /\ c.temperature.value = fit_params[i].temperature
            /\ c.scale.value = fit_params[i].scale
            /\ fit_result # <<>> =>
                 fit_result[component_labels[i]].temperature
                   = fit_params[i].temperature

\* a fit that moved the free scales and left the temperatures
C5_Witness ==
  /\ fit_result # <<>>
  /\ \A i \in 1..n_components :
       /\ fit_result[component_labels[i]].scale # fit_params[i].scale
       /\ fit_result[component_labels[i]].temperature
            = fit_params[i].temperature

\* C6: every `set` call for a label comes after the `create` call for that
\* label, and calculate_fit is called only after all three components were
\* created and both parameters of each were set to the values of fit_params.
C6_CreateBeforeSetBeforeFit ==
  /\ \A j \in LogIdx :
       api_log[j].op = "set" =>
         \E i \in 1..(j - 1) :
           api_log[i].op = "create" /\ api_log[i].label = api_log[j].label
  /\ \A j \in LogIdx :
       api_log[j].op = "fit" =>
         \A l \in Labels :
           /\ \E i \in 1..(j - 1) :
                api_log[i].op = "create" /\ api_log[i].label = l
           /\ \A q \in {"temperature", "scale"} :
                \E i \in 1..(j - 1) :
                  /\ api_log[i].op = "set"
                  /\ api_log[i].label = l
                  /\ api_log[i].param = q
  /\ fit_calls > 0 =>
       /\ DOMAIN plugin = Labels
       /\ \A i \in 1..n_components :
            /\ plugin[component_labels[i]].temperature.value
                 = fit_params[i].temperature
            /\ plugin[component_labels[i]].scale.value = fit_params[i].scale

C6_Witness ==
  /\ fit_calls = 1
  /\ Len(api_log) = 10
  /\ api_log[10].op = "fit"

C7_CachedDownload ==
  [][cached # 0 => /\ cached' = cached
                   /\ fetches' = fetches
                   /\ (data' # <<>> => data' = file_cube)]_vars

\* the second run has passed its download with the file of the first run
C7_Witness ==
  /\ run = 2
  /\ "download" \in executed
  /\ error = "none"
  /\ cached = 1
  /\ fetches = 1

Before(s, t) == StageIdx(s) < StageIdx(t)

\* C8: when a stage raises, the run stops there with that error: no stage
\* after the failing one has run, and none of their results exists.
C8_FailFast ==
  error # "none" =>
    /\ pc = "halted"
    /\ failed_at \in executed
    /\ \A s \in executed : ~Before(failed_at, s)
    /\ Before(failed_at, "load") => data = <<>>
    /\ ~Before("fit", failed_at) => fit_result = <<>>
    /\ Before(failed_at, "edges") => subset_bounds = <<>>
    /\ Before(failed_at, "bands") => subsets = <<>> /\ bandpasses = <<>>
    /\ ~Before("bands", failed_at) => Len(bandpasses) < n_subsets
    /\ ~Before("collapse", failed_at) => collapsed_images = <<>>

C8_Witness ==
  /\ error # "none"
  /\ failed_at = "bands"
  /\ Len(bandpasses) = 1


(***************************************************************************)
(* collapse() on its own: bands with arbitrary masks                       *)
(***************************************************************************)
Pixels == (1..NX) \X (1..NY)

\* a mask that is True at the samples f[p] of the pixels p of P
MaskOf(P, f) ==
  [a \in 1..NX |-> [b \in 1..NY |-> [k \in 1..NWave |->
     <<a, b>> \in P /\ k \in f[<<a, b>>]]]]

InitCollapse ==
  /\ KernelInit
  /\ run = 1
  /\ cached = 1
  /\ fetches = 1
  /\ n_subsets = 1
  /\ NoInteraction
  /\ file_cube \in {[wavelength |-> [k \in 1..NWave |-> k], flux |-> f] :
                      f \in {OnesFlux(NX, NY, NWave),
                             RampFlux(NX, NY, NWave)}}

\* the band handed to collapse(): the cube's flux under any mask
GiveBand ==
  /\ pc = "download"
  /\ UNCHANGED <<statInVars, statVars>>
  /\ \E P \in {Q \in SUBSET Pixels : Cardinality(Q) <= MaxMaskedPixels} :
       \E f \in [P -> (SUBSET (1..NWave)) \ {{}}] :
         bandpasses' = <<[data |-> file_cube.flux, mask |-> MaskOf(P, f)]>>
  /\ pc' = "collapse"
  /\ UNCHANGED <<ctlVars, executed, run, fsVars, inVars, data, fitVars,
                 subset_edges, subset_bounds, subsets, edit_subset,
                 collapsed_images>>

NextCollapse ==
  \/ GiveBand
  \/ Collapse

SpecCollapse == InitCollapse /\ [][NextCollapse]_vars

RECURSIVE SumSet(_, _)
SumSet(S, row) ==
  IF S = {} THEN Num(0)
  ELSE LET k == CHOOSE x \in S : TRUE
       IN Add(row[k], SumSet(S \ {k}, row))

Unmasked(band, a, b) ==
  {k \in 1..Len(band.mask[a][b]) : ~band.mask[a][b][k]}

\* C3: collapse() leaves the masked samples out: the value of every pixel
\* that has an unmasked sample is the sum of its unmasked samples and the
\* pixel is not flagged; a pixel masked at every sample is flagged as
\* no data (the image's mask is set there).
C3_CollapseExcludesMasked ==
  collapsed_images # <<>> =>
    LET band == bandpasses[1]
        img == collapsed_images[1]
    IN /\ Len(img.data) = Len(band.data[1])
       /\ Len(img.data[1]) = Len(band.data)
       /\ \A a \in 1..Len(band.data) : \A b \in 1..Len(band.data[a]) :
            LET U == Unmasked(band, a, b)
            IN /\ img.mask[b][a] <=> U = {}
               /\ U # {} => img.data[b][a] = SumSet(U, band.data[a][b])

\* one pixel masked throughout beside one with some samples masked
C3_Witness ==
  /\ collapsed_images # <<>>
  /\ LET band == bandpasses[1]
         img == collapsed_images[1]
     IN \E a1, a2 \in 1..Len(band.data) : \E b1, b2 \in 1..Len(band.data[1]) :
          /\ Unmasked(band, a1, b1) = {}
          /\ img.mask[b1][a1]
          /\ Cardinality(Unmasked(band, a2, b2)) = Len(band.data[a2][b2]) - 1
          /\ ~img.mask[b2][a2]
          /\ ~img.data[b2][a2].nan
          /\ img.data[b2][a2].val > 0

(***************************************************************************)
(* End to end: a 5 x 5 x 10 cube of ones, two bands                        *)
(***************************************************************************)
E2EShape == <<5, 5, 10>>
UniformAxis(s, d, n) == [k \in 1..n |-> s + (k - 1) * d]
IsUniform(w) ==
  \A k \in 2..(Len(w) - 1) : w[k + 1] - w[k] = w[k] - w[k - 1]
\* the last sample moved away from the grid
SkewAxes == {[k \in 1..E2EShape[3] |-> IF k = E2EShape[3] THEN v ELSE k] :
               v \in {11, 20}}
E2EAxes ==
  {UniformAxis(s, d, E2EShape[3]) : s \in 1..2, d \in 1..2} \cup SkewAxes

InitE2E ==
  /\ KernelInit
  /\ run = 1
  /\ cached = 0
  /\ fetches = 0
  /\ n_subsets = 2
  /\ NoInteraction
  /\ file_cube \in {[wavelength |-> w,
                     flux |-> OnesFlux(E2EShape[1], E2EShape[2], E2EShape[3])] :
                      w \in E2EAxes}

SpecE2E == InitE2E /\ [][Next]_vars

AllPixels(img, v) ==
  \A r \in 1..Len(img.data) : \A c \in 1..Len(img.data[r]) :
    img.data[r][c] = v /\ ~img.mask[r][c]

\* number of spectral samples between the boundaries of band i
SamplesIn(i) ==
  Cardinality({k \in Samples :
                 /\ RatLe(subset_edges[i], Wl(k))
                 /\ RatLe(Wl(k), subset_edges[i + 1])})

\* C4 as stated: for every 5 x 5 x 10 cube of ones the two collapsed images
\* are 5 x 5 arrays of fives and equal to each other.
C4_ImagesOfFives ==
  collapsed_images # <<>> =>
    /\ Len(collapsed_images) = 2
    /\ \A i \in 1..2 :
         /\ Len(collapsed_images[i].data) = 5
         /\ Len(collapsed_images[i].data[1]) = 5
         /\ AllPixels(collapsed_images[i], Num(5))
    /\ collapsed_images[1] = collapsed_images[2]

\* C4 (amended): the two images are 5 x 5, unflagged, and every pixel of
\* image i is the number of samples of band i; on an evenly spaced spectral
\* axis that is 5 for both bands and the two images are equal.
C4_ImagesCountSamples ==
  collapsed_images # <<>> =>
    /\ Len(collapsed_images) = 2
    /\ \A i \in 1..2 :
         /\ Len(collapsed_images[i].data) = 5
         /\ Len(collapsed_images[i].data[1]) = 5
         /\ AllPixels(collapsed_images[i], Num(SamplesIn(i)))
    /\ IsUniform(file_cube.wavelength) =>
         /\ \A i \in 1..2 : AllPixels(collapsed_images[i], Num(5))
         /\ collapsed_images[1] = collapsed_images[2]

C4_Witness ==
  /\ collapsed_images # <<>>
  /\ IsUniform(file_cube.wavelength)
  /\ Shape(file_cube.flux) = E2EShape
  /\ AllPixels(collapsed_images[1], Num(5))
  /\ AllPixels(collapsed_images[2], Num(5))


(***************************************************************************)
(* The statistics cells (after the second Cubeviz), statement by statement *)
(***************************************************************************)
\* largest number of defective samples (DQ flag or NaN) in the product
MaxDefects == 1
\* `7 * u.um < wavelength`
LongCut == 7

\* get_subset_object("Subset 1", cls=NDDataArray) for a region drawn in the
\* image viewer: the whole array, masked outside the region's pixels
get_subset_object_roi(arr, P) ==
  [data |-> arr,
   mask |-> [a \in 1..Len(arr) |-> [b \in 1..Len(arr[a]) |->
               [k \in 1..Len(arr[a][b]) |-> <<a, b>> \notin P]]]]

\* bitfield_to_boolean_mask(bitfield) with its defaults (ignore_flags=0,
\* good_mask_value=False): True where any flag bit is set
bitfield_to_boolean_mask(bitfield) ==
  [a \in 1..Len(bitfield) |-> [b \in 1..Len(bitfield[a]) |->
     [k \in 1..Len(bitfield[a][b]) |-> bitfield[a][b][k] # 0]]]

isnan(c) ==
  [a \in 1..Len(c) |-> [b \in 1..Len(c[a]) |->
     [k \in 1..Len(c[a][b]) |-> c[a][b][k].nan]]]

\* the combination without the NaN test
CombineMask_no_nan(bits, m, nans) ==
  [a \in 1..Len(bits) |-> [b \in 1..Len(bits[a]) |->
     [k \in 1..Len(bits[a][b]) |-> bits[a][b][k] \/ m[a][b][k]]]]

\* bits | m | nans
CombineMask(bits, m, nans) ==
  [a \in 1..Len(bits) |-> [b \in 1..Len(bits[a]) |->
     [k \in 1..Len(bits[a][b]) |->
        bits[a][b][k] \/ m[a][b][k] \/ nans[a][b][k]]]]

\* np.swapaxes(c, 1, 0)
swapaxes10(c) ==
  [b \in 1..Len(c[1]) |-> [a \in 1..Len(c) |-> c[a][b]]]

\* the write goes to a copy: the array itself stays as it was
SetNaN_on_copy(c, m) == c

\* c[m] = np.nan
SetNaN(c, m) ==
  [a \in 1..Len(c) |-> [b \in 1..Len(c[a]) |->
     [k \in 1..Len(c[a][b]) |-> IF m[a][b][k] THEN NaN ELSE c[a][b][k]]]]

Cells(c) == {<<a, b>> : a \in 1..Len(c), b \in 1..Len(c[1])}

\* np.sum(~np.isnan(c), axis=(0, 1))
CountValid(c) ==
  [k \in 1..Len(c[1][1]) |->
     Cardinality({p \in Cells(c) : ~c[p[1]][p[2]][k].nan})]

RECURSIVE SumOver(_, _, _)
SumOver(S, c, k) ==
  IF S = {} THEN 0
  ELSE LET p == CHOOSE q \in S : TRUE
       IN c[p[1]][p[2]][k].val + SumOver(S \ {p}, c, k)

\* np.nansum(c, axis=(0, 1)): NaN counts as zero
nansum(c) ==
  [k \in 1..Len(c[1][1]) |->
     SumOver({p \in Cells(c) : ~c[p[1]][p[2]][k].nan}, c, k)]

\* the sum left as it is, without the factor count.max() / count
ScaleByCount_unscaled(s, cmax, n) ==
  [nan |-> n = 0, num |-> s, den |-> 1]

\* s * (cmax / n) in floating point: n = 0 gives inf or nan for the ratio,
\* and 0 * inf = nan (the nansum of a slice without valid samples is 0)
ScaleByCount(s, cmax, n) ==
  IF n = 0 THEN [nan |-> TRUE, num |-> 0, den |-> 1]
  ELSE [nan |-> FALSE, num |-> s * cmax, den |-> n]

\* Angstrom per micron: `.to_value(u.AA)` of a difference in um
AAPerMicron == 10000

RECURSIVE SumF(_, _)
SumF(S, f) ==
  IF S = {} THEN 0
  ELSE LET p == CHOOSE q \in S : TRUE IN f[p] + SumF(S \ {p}, f)

\* the weighted sum divided by the number of unmasked elements instead of
\* by the sum of their weights
ma_average_per_pixel(grid, w) ==
  LET valid == {p \in Cells(w.data) : ~w.mask[p[1]][p[2]]}
      gw == [p \in valid |-> grid[p[1]][p[2]] * w.data[p[1]][p[2]].val]
  IN IF valid = {} THEN [kind |-> "masked", val |-> Rat(0, 1)]
     ELSE IF \E p \in valid : w.data[p[1]][p[2]].nan
     THEN [kind |-> "nan", val |-> Rat(0, 1)]
     ELSE [kind |-> "value", val |-> Rat(SumF(valid, gw), Cardinality(valid))]

\* masked weights count as zero, and a slice without weight gets position 0
ma_average_zero_filled(grid, w) ==
  LET valid == {p \in Cells(w.data) : ~w.mask[p[1]][p[2]]}
      wt == [p \in valid |-> w.data[p[1]][p[2]].val]
      gw == [p \in valid |-> grid[p[1]][p[2]] * w.data[p[1]][p[2]].val]
  IN IF SumF(valid, wt) = 0 THEN [kind |-> "value", val |-> Rat(0, 1)]
     ELSE [kind |-> "value", val |-> Rat(SumF(valid, gw), SumF(valid, wt))]

\* the result of np.ma.average(grid, weights=w) for a 2-D masked array w:
\* sum(grid * w) / sum(w) over the unmasked elements; `masked` when every
\* element is masked, nan or inf when the weights add up to zero
ma_average(grid, w) ==
  LET valid == {p \in Cells(w.data) : ~w.mask[p[1]][p[2]]}
      wt == [p \in valid |-> w.data[p[1]][p[2]].val]
      gw == [p \in valid |-> grid[p[1]][p[2]] * w.data[p[1]][p[2]].val]
      scl == SumF(valid, wt)
      tot == SumF(valid, gw)
  IN IF valid = {} THEN [kind |-> "masked", val |-> Rat(0, 1)]
     ELSE IF \E p \in valid : w.data[p[1]][p[2]].nan
     THEN [kind |-> "nan", val |-> Rat(0, 1)]
     ELSE IF scl = 0
     THEN [kind |-> IF tot = 0 THEN "nan" ELSE "inf", val |-> Rat(0, 1)]
     ELSE [kind |-> "value", val |-> Rat(tot, scl)]

\* source_spectrum_ma.transpose(2, 0, 1)[k]
wl_slice(ma, k) ==
  [data |-> [r \in 1..Len(ma.data) |-> [c \in 1..Len(ma.data[r]) |->
               ma.data[r][c][k]]],
   mask |-> [r \in 1..Len(ma.mask) |-> [c \in 1..Len(ma.mask[r]) |->
               ma.mask[r][c][k]]]]

\* np.meshgrid(np.arange(ncols), np.arange(nrows)) for a slice of the cube
xx(ma) == [r \in 1..Len(ma.data) |-> [c \in 1..Len(ma.data[r]) |-> c - 1]]
yy(ma) == [r \in 1..Len(ma.data) |-> [c \in 1..Len(ma.data[r]) |-> r - 1]]

\* `7 * u.um < extracted_spectrum.wavelength`, as the set of its True indices
long_wavelengths(wavelength) ==
  {k \in 1..Len(wavelength) : LongCut < wavelength[k]}

\* row i (from 1) of np.reshape(source_spectrum_ma[..., long], (-1, nlong)):
\* the spectrum of the pixel at C-order position i
PixelOf(ma, i) ==
  <<((i - 1) \div Len(ma.data[1])) + 1, ((i - 1) % Len(ma.data[1])) + 1>>

\* `n_params = 2`: a first-degree polynomial
n_params == 2

\* columns in increasing powers (np.vander(x, N, increasing=True))
vander_power_increasing(col, n) == col - 1

\* np.vander(x, N): column col (from 1) of the matrix holds x^(N - col)
vander_power(col, n) == n - col

\* the ordinary least-squares line through the samples S of y, against
\* (wavelength - w0) in Angstrom.  With every sample at w0 the matrix has a
\* zero column and the minimum-norm solution has slope 0.
ols(wavelength, w0, S, y) ==
  LET n == Cardinality(S)
      d == [k \in S |-> wavelength[k] - w0]
      dd == [k \in S |-> d[k] * d[k]]
      yv == [k \in S |-> y[k].val]
      dy == [k \in S |-> d[k] * y[k].val]
      Sd == SumF(S, d)
      Sdd == SumF(S, dd)
      Sy == SumF(S, yv)
      Sdy == SumF(S, dy)
      D == n * Sdd - Sd * Sd
  IN IF D = 0
     THEN [slope |-> Rat(0, 1), offset |-> Rat(Sy, n)]
     ELSE [slope |-> Rat(n * Sdy - Sd * Sy, AAPerMicron * D),
           offset |-> Rat(Sy * Sdd - Sd * Sdy, D)]

\* `np.nan * np.zeros(n_params)`: a row of betas before it is written
NaNBeta == [nan |-> TRUE, coef |-> [col \in 1..n_params |-> Rat(0, 1)]]

\* wavelengths[0]: the first wavelength of the selected band
FirstOf(wavelength, long) ==
  wavelength[CHOOSE k \in long : \A j \in long : k <= j]

\* np.linalg.lstsq(np.vander(x, n_params), pxl_spectrum)[0] with
\* x = (wavelengths - wavelengths[0]).to_value(u.AA): one coefficient per
\* column of the matrix.  lstsq takes the data of the masked array and not
\* its mask; a NaN among the data makes every coefficient NaN.
lstsq(wavelength, long, y) ==
  LET fit == ols(wavelength, FirstOf(wavelength, long), long, y)
  IN IF \E k \in long : y[k].nan THEN NaNBeta
     ELSE [nan |-> FALSE,
           coef |-> [col \in 1..n_params |->
                       IF vander_power(col, n_params) = 1 THEN fit.slope
                       ELSE fit.offset]]

\* `if not np.any(pxl_spectrum.mask)`
AllMasked_any(ma, long, i) ==
  \E k \in long : ma.mask[PixelOf(ma, i)[1]][PixelOf(ma, i)[2]][k]

\* np.all(pxl_spectrum.mask) for row i of extracted_spectrum_per_pixel
AllMasked(ma, long, i) ==
  \A k \in long : ma.mask[PixelOf(ma, i)[1]][PixelOf(ma, i)[2]][k]

\* plt.scatter(betas[:, 1], betas[:, 0], ...) with xlabel 'flux at ...' and
\* ylabel 'Spectral slope'
plotted_flux(beta) == beta.coef[2]
plotted_slope(beta) == beta.coef[1]

\* the product's spectral axis reaches beyond LongCut
StatsAxis == [k \in 1..NWave |-> LongCut - 1 + k]
Samples3 == (1..NX) \X (1..NY) \X (1..NWave)
\* what is wrong with a defective sample: its DQ value, its flux being NaN
DefectKinds ==
  {[dq |-> 1, nan |-> FALSE], [dq |-> 0, nan |-> TRUE],
   [dq |-> 4, nan |-> TRUE]}
\* the regions a user draws as "Subset 1"
Regions == {Pixels, {<<1, 1>>}, Pixels \ {<<1, 1>>}, {}}

StatsFlux(D, kind) ==
  [a \in 1..NX |-> [b \in 1..NY |-> [k \in 1..NWave |->
     IF <<a, b, k>> \in D /\ kind[<<a, b, k>>].nan THEN NaN
     ELSE Num(4 * a + 2 * b + k)]]]
StatsDQ(D, kind) ==
  [a \in 1..NX |-> [b \in 1..NY |-> [k \in 1..NWave |->
     IF <<a, b, k>> \in D THEN kind[<<a, b, k>>].dq ELSE 0]]]

\* the kernel when the cell after the second Cubeviz starts: the product is
\* loaded; the names of the first half are not read by these cells except
\* the spectral axis
InitStats ==
  /\ pc = "st_get"
  /\ error = "none"
  /\ failed_at = "none"
  /\ executed = {Stages[i] : i \in 1..(Len(Stages) - 1)}
  /\ run = 1
  /\ cached = 1
  /\ fetches = 1
  /\ n_subsets = 5
  /\ fit_params = <<>>
  /\ plugin = <<>>
  /\ ci = <<1, 0>>
  /\ api_log = <<>>
  /\ fit_calls = 0
  /\ fit_result = <<>>
  /\ subset_edges = <<>>
  /\ subset_bounds = <<>>
  /\ subsets = <<>>
  /\ edit_subset = 0
  /\ bandpasses = <<>>
  /\ collapsed_images = <<>>
  /\ StatsKernelInit
  /\ \E D \in {S \in SUBSET Samples3 : Cardinality(S) <= MaxDefects} :
       \E kind \in [D -> DefectKinds] :
         /\ file_cube = [wavelength |-> StatsAxis, flux |-> StatsFlux(D, kind)]
         /\ data = file_cube
         /\ mask_dataset = StatsDQ(D, kind)
  /\ subset1 \in {[drawn |-> FALSE, pixels |-> {}]} \cup
                  {[drawn |-> TRUE, pixels |-> P] : P \in Regions}
  /\ exercises \in BOOLEAN

pipeVars == <<run, fsVars, inVars, data, fitVars, subVars, collapsed_images,
              statInVars>>

\* source_spectrum = data.get_subset_object("Subset 1", cls=NDDataArray)
\* mask_nddata = mask_dataset.get_subset_object("Subset 1", cls=NDDataArray)
StGet ==
  /\ pc = "st_get"
  /\ \/ /\ subset1.drawn
        /\ source_spectrum' = get_subset_object_roi(data.flux, subset1.pixels)
        /\ mask_nddata' = get_subset_object_roi(mask_dataset, subset1.pixels)
        /\ pc' = "st_mask"
        /\ UNCHANGED <<ctlVars, executed>>
     \/ /\ ~subset1.drawn
        /\ Raise("stats", "Exception")
        /\ UNCHANGED <<source_spectrum, mask_nddata>>
  /\ UNCHANGED <<pipeVars, mask_writes, source_spectrum_ma, reductions, count,
                 masked_spectrum_flux, coords, betas, hotspot_mask>>

\* mask = bitfield_to_boolean_mask(...) | mask_nddata.mask | np.isnan(...)
\* source_spectrum.mask = mask
StMask ==
  /\ pc = "st_mask"
  /\ source_spectrum' =
       [source_spectrum EXCEPT !.mask =
          CombineMask(bitfield_to_boolean_mask(mask_nddata.data),
                      mask_nddata.mask, isnan(source_spectrum.data))]
  /\ mask_writes' = mask_writes + 1
  /\ pc' = "st_swap"
  /\ UNCHANGED <<pipeVars, ctlVars, executed, mask_nddata, source_spectrum_ma,
                 reductions, count, masked_spectrum_flux, coords, betas,
                 hotspot_mask>>

\* source_spectrum_ma = np.swapaxes(np.asanyarray(source_spectrum), 1, 0)
StSwap ==
  /\ pc = "st_swap"
  /\ source_spectrum_ma' = [data |-> swapaxes10(source_spectrum.data),
                            mask |-> swapaxes10(source_spectrum.mask)]
  /\ pc' = "st_nan"
  /\ UNCHANGED <<pipeVars, ctlVars, executed, source_spectrum, mask_nddata,
                 mask_writes, reductions, count, masked_spectrum_flux, coords,
                 betas, hotspot_mask>>

\* masked_spec = source_spectrum.data; masked_spec[source_spectrum.mask] =
\* np.nan: the write goes to the array that source_spectrum and the masked
\* array share
StNan ==
  /\ pc = "st_nan"
  /\ LET masked_spec == SetNaN(source_spectrum.data, source_spectrum.mask)
     IN /\ source_spectrum' = [source_spectrum EXCEPT !.data = masked_spec]
        /\ source_spectrum_ma' =
             [source_spectrum_ma EXCEPT !.data = swapaxes10(masked_spec)]
  /\ pc' = "st_count"
  /\ UNCHANGED <<pipeVars, ctlVars, executed, mask_nddata, mask_writes,
                 reductions, count, masked_spectrum_flux, coords, betas,
                 hotspot_mask>>

\* count = np.sum(~np.isnan(masked_spec), axis=(0, 1))
StCount ==
  /\ pc = "st_count"
  /\ count' = CountValid(source_spectrum.data)
  /\ reductions' = Append(reductions, "count")
  /\ pc' = "st_nansum"
  /\ UNCHANGED <<pipeVars, ctlVars, executed, source_spectrum, mask_nddata,
                 mask_writes, source_spectrum_ma, masked_spectrum_flux, coords,
                 betas, hotspot_mask>>

\* masked_spectrum_flux = np.nansum(source_spectrum.data, axis=(0, 1))
\*                        * source_spectrum.unit * (count.max() / count)
StNansum ==
  /\ pc = "st_nansum"
  /\ masked_spectrum_flux' =
       LET total == nansum(source_spectrum.data)
       IN [k \in 1..Len(count) |->
             ScaleByCount(total[k], SeqMax(count), count[k])]
  /\ reductions' = Append(reductions, "nansum")
  /\ pc' = "st_means"
  /\ UNCHANGED <<pipeVars, ctlVars, executed, source_spectrum, mask_nddata,
                 mask_writes, source_spectrum_ma, count, coords, betas,
                 hotspot_mask>>

\* the mean-image cell: the code that makes `mean_image` is left to the
\* reader (it averages source_spectrum_ma over a wavelength range); as
\* shipped, `mean_images.append(mean_image)` raises NameError
StMeans ==
  /\ pc = "st_means"
  /\ \/ /\ exercises
        /\ reductions' = Append(reductions, "mean")
        /\ pc' = "st_centroid"
        /\ UNCHANGED <<ctlVars, executed>>
     \/ /\ ~exercises
        /\ Raise("stats", "Exception")
        /\ UNCHANGED reductions
  /\ UNCHANGED <<pipeVars, source_spectrum, mask_nddata, mask_writes,
                 source_spectrum_ma, count, masked_spectrum_flux, coords,
                 betas, hotspot_mask>>

\* for i, wl_slice in enumerate(source_spectrum_ma.transpose(2, 0, 1)):
\*     coords.append([np.ma.average(xx, weights=wl_slice),
\*                    np.ma.average(yy, weights=wl_slice)])
StCentroid ==
  /\ pc = "st_centroid"
  /\ coords' =
       [k \in 1..Len(source_spectrum_ma.data[1][1]) |->
          LET w == wl_slice(source_spectrum_ma, k)
          IN [xbar |-> ma_average(xx(source_spectrum_ma), w),
              ybar |-> ma_average(yy(source_spectrum_ma), w)]]
  /\ reductions' = Append(reductions, "centroid")
  /\ pc' = "st_slope"
  /\ UNCHANGED <<pipeVars, ctlVars, executed, source_spectrum, mask_nddata,
                 mask_writes, source_spectrum_ma, count, masked_spectrum_flux,
                 betas, hotspot_mask>>

\* betas start as NaN and hotspot_distances as all masked; a pixel whose
\* long-wavelength spectrum is not entirely masked gets its fit and is
\* unmasked
StSlope ==
  /\ pc = "st_slope"
  /\ LET ma == source_spectrum_ma
         long == long_wavelengths(data.wavelength)
         npix == Len(ma.data) * Len(ma.data[1])
     IN /\ betas' =
             [i \in 1..npix |->
                IF AllMasked(ma, long, i) THEN NaNBeta
                ELSE lstsq(data.wavelength, long,
                           ma.data[PixelOf(ma, i)[1]][PixelOf(ma, i)[2]])]
        /\ hotspot_mask' = [i \in 1..npix |-> AllMasked(ma, long, i)]
  /\ reductions' = Append(reductions, "slope")
  /\ pc' = NextStagePc("stats")
  /\ Done("stats")
  /\ UNCHANGED <<pipeVars, ctlVars, source_spectrum, mask_nddata, mask_writes,
                 source_spectrum_ma, count, masked_spectrum_flux, coords>>

NextStats ==
  \/ StGet
  \/ StMask
  \/ StSwap
  \/ StNan
  \/ StCount
  \/ StNansum
  \/ StMeans
  \/ StCentroid
  \/ StSlope

SpecStats == InitStats /\ [][NextStats]_vars

(***************************************************************************)
(* C10: the validity mask is the elementwise OR of three sources: a        *)
(* nonzero data-quality value (any flag bit set), the existing mask, and a *)
(* NaN in the flux.  It is assigned once, before anything consumes it, and *)
(* the count, the centre of light and the per-pixel fit all see that mask. *)
(***************************************************************************)
Invalid(a, b, k) ==
  \/ mask_dataset[a][b][k] # 0
  \/ mask_nddata.mask[a][b][k]
  \/ file_cube.flux[a][b][k].nan

C10_ValidityMaskCombinedOnce ==
  /\ mask_writes <= 1
  /\ (source_spectrum_ma # <<>> \/ reductions # <<>>) => mask_writes = 1
  /\ mask_writes = 1 =>
       /\ \A s \in Samples3 :
            source_spectrum.mask[s[1]][s[2]][s[3]] <=> Invalid(s[1], s[2], s[3])
       /\ source_spectrum_ma # <<>> =>
            \A s \in Samples3 :
              source_spectrum_ma.mask[s[2]][s[1]][s[3]]
                <=> Invalid(s[1], s[2], s[3])
       /\ count # <<>> =>
            \A k \in 1..NWave :
              count[k] = Cardinality({p \in Pixels : ~Invalid(p[1], p[2], k)})
       /\ coords # <<>> =>
            \A k \in 1..NWave :
              coords[k].xbar.kind = "masked"
                <=> \A p \in Pixels : Invalid(p[1], p[2], k)
       /\ hotspot_mask # <<>> =>
            \A p \in Pixels :
              hotspot_mask[(p[2] - 1) * NX + p[1]]
                <=> \A k \in long_wavelengths(data.wavelength) :
                      Invalid(p[1], p[2], k)

\* every reduction has run on a cube with a sample that only the NaN test
\* or only the DQ value marks invalid, and with pixels outside the subset
C10_Witness ==
  /\ pc = "done"
  /\ reductions = <<"count", "nansum", "mean", "centroid", "slope">>
  /\ \E s \in Samples3 :
       /\ ~mask_nddata.mask[s[1]][s[2]][s[3]]
       /\ (mask_dataset[s[1]][s[2]][s[3]] # 0)
            # file_cube.flux[s[1]][s[2]][s[3]].nan
       /\ source_spectrum.mask[s[1]][s[2]][s[3]]
  /\ \E s \in Samples3 :
       /\ mask_nddata.mask[s[1]][s[2]][s[3]]
       /\ mask_dataset[s[1]][s[2]][s[3]] = 0
       /\ ~file_cube.flux[s[1]][s[2]][s[3]].nan

BeforeStamp == {"st_get", "st_mask", "st_swap", "st_nan"}

pixel_to_world(w, p) ==
  [ax \in {"ra", "dec"} |-> p[CHOOSE i \in 1..Len(w) : w[i] = ax]]

\* the sky position of an array element: array indices (row, column) are the
\* pixel coordinates in reverse order
array_index_to_world(w, row, col) == pixel_to_world(w, <<col, row>>)

\* the sky position of the spatial pixel [a][b] of the cube in Cubeviz, whose
\* array axes are (x, y, wavelength): x runs along header axis 1, y along 2
cube_pixel_to_world(a, b) == pixel_to_world(wcs_celestial, <<a, b>>)

(***************************************************************************)
(* C12 as stated: every pixel of a collapsed image holds the collapsed     *)
(* value of the cube pixel that has the same sky position under the WCS    *)
(* attached to the image.                                                  *)
(***************************************************************************)
C12_ImageMatchesSky ==
  \A i \in 1..Len(collapsed_images) :
    LET img == collapsed_images[i]
        sums == ma_sum(bandpasses[i], DISPAXIS)
    IN \A r \in 1..Len(img.data) : \A c \in 1..Len(img.data[r]) :
         \E a \in 1..Len(sums.data) : \E b \in 1..Len(sums.data[a]) :
           /\ cube_pixel_to_world(a, b) = array_index_to_world(img.wcs, r, c)
           /\ img.data[r][c] = sums.data[a][b]
           /\ img.mask[r][c] = sums.mask[a][b]

(***************************************************************************)
(* The statistics cells on products with straight-line spectra: every      *)
(* spatial pixel has flux = offset + slope * (wavelength - band start),    *)
(* with zero and negative values among them                                *)
(***************************************************************************)
\* one sample below the long-wavelength band and NWave samples inside it
SynthAxis == [k \in 1..(NWave + 1) |-> LongCut - 1 + k]
SynthSamples == (1..NX) \X (1..NY) \X (1..(NWave + 1))
Offsets == {0, 1, 3}
Slopes == {-1, 0, 2}
Gradients == {-2, 0, 1}

SynthFlux(off, sl, gx) ==
  [a \in 1..NX |-> [b \in 1..NY |-> [k \in 1..(NWave + 1) |->
     Num(off + gx * (a - 1) + (b - 1) + sl * (SynthAxis[k] - SynthAxis[2]))]]]
\* DQ flags on the samples of D
SynthDQ(D) ==
  [a \in 1..NX |-> [b \in 1..NY |-> [k \in 1..(NWave + 1) |->
     IF <<a, b, k>> \in D THEN 1 ELSE 0]]]

\* what the user has done: the region drawn as "Subset 1", the exercises
Interactions ==
  {[drawn |-> TRUE, pixels |-> P, exercises |-> TRUE] :
     P \in {Pixels, {<<1, 1>>}, {}}}
  \cup {[drawn |-> TRUE, pixels |-> Pixels, exercises |-> FALSE],
        [drawn |-> FALSE, pixels |-> {}, exercises |-> FALSE]}

InitSynth ==
  /\ pc = "st_get"
  /\ error = "none"
  /\ failed_at = "none"
  /\ executed = {Stages[i] : i \in 1..(Len(Stages) - 1)}
  /\ run = 1
  /\ cached = 1
  /\ fetches = 1
  /\ n_subsets = 5
  /\ fit_params = <<>>
  /\ plugin = <<>>
  /\ ci = <<1, 0>>
  /\ api_log = <<>>
  /\ fit_calls = 0
  /\ fit_result = <<>>
  /\ subset_edges = <<>>
  /\ subset_bounds = <<>>
  /\ subsets = <<>>
  /\ edit_subset = 0
  /\ bandpasses = <<>>
  /\ collapsed_images = <<>>
  /\ StatsKernelInit
  /\ \E off \in Offsets, sl \in Slopes, gx \in Gradients :
       file_cube = [wavelength |-> SynthAxis, flux |-> SynthFlux(off, sl, gx)]
  /\ data = file_cube
  /\ \E D \in {S \in SUBSET SynthSamples : Cardinality(S) <= MaxDefects} :
       mask_dataset = SynthDQ(D)
  /\ \E u \in Interactions :
       /\ subset1 = [drawn |-> u.drawn, pixels |-> u.pixels]
       /\ exercises = u.exercises

SpecSynth == InitSynth /\ [][NextStats]_vars

\* largest factor the weights are multiplied by
MaxScale == 3

\* the masked array w with every weight multiplied by c
ScaleWeights(w, c) ==
  [data |-> [r \in 1..Len(w.data) |-> [q \in 1..Len(w.data[r]) |->
               IF w.data[r][q].nan THEN NaN ELSE Num(c * w.data[r][q].val)]],
   mask |-> w.mask]

SameCoordinate(p, q) ==
  /\ p.kind = q.kind
  /\ p.kind = "value" => RatEq(p.val, q.val)

(***************************************************************************)
(* C13: the centre of light of every wavelength slice is the same when all *)
(* its flux weights are multiplied by a positive constant.                 *)
(***************************************************************************)
C13_CentroidScaleInvariant ==
  coords # <<>> =>
    \A k \in 1..Len(coords) : \A c \in 1..MaxScale :
      LET scaled == ScaleWeights(wl_slice(source_spectrum_ma, k), c)
      IN /\ SameCoordinate(coords[k].xbar,
                           ma_average(xx(source_spectrum_ma), scaled))
         /\ SameCoordinate(coords[k].ybar,
                           ma_average(yy(source_spectrum_ma), scaled))

\* a slice whose centre of light lies strictly between two pixels
C13_Witness ==
  /\ pc = "done"
  /\ \E k \in 1..Len(coords) :
       /\ coords[k].xbar.kind = "value"
       /\ coords[k].xbar.val.num # 0
       /\ coords[k].xbar.val.num # coords[k].xbar.val.den

\* the unmasked pixels of wavelength slice k, as cube pixels <<a, b>>
ValidPixels(k) ==
  {p \in Cells(source_spectrum.mask) : ~source_spectrum.mask[p[1]][p[2]][k]}

\* the sum of the flux weights of the unmasked pixels of slice k
TotalWeight(k) ==
  SumF(ValidPixels(k),
       [p \in ValidPixels(k) |-> file_cube.flux[p[1]][p[2]][k].val])

\* a coordinate that is no position: np.ma.masked, nan or an infinity
NoData(c) == c.kind \in {"masked", "nan", "inf"}

ValidLong(p) ==
  {k \in long_wavelengths(data.wavelength) :
     ~source_spectrum.mask[p[1]][p[2]][k]}

\* the row of extracted_spectrum_per_pixel that holds cube pixel <<a, b>>
RowOf(p) == (p[2] - 1) * Len(source_spectrum.mask) + p[1]

(***************************************************************************)
(* C15: after the per-pixel fit a pixel is unmasked in hotspot_distances   *)
(* iff it has at least one valid sample in the long-wavelength band; a     *)
(* pixel without valid samples stays masked and its coefficients stay NaN, *)
(* and a pixel whose band samples are all valid has numeric coefficients.  *)
(***************************************************************************)
C15_ValidIffSomeSample ==
  hotspot_mask # <<>> =>
    /\ Len(hotspot_mask) = Cardinality(Cells(source_spectrum.mask))
    /\ Len(betas) = Len(hotspot_mask)
    /\ \A p \in Cells(source_spectrum.mask) :
         /\ ~hotspot_mask[RowOf(p)] <=> ValidLong(p) # {}
         /\ ValidLong(p) = {} => betas[RowOf(p)] = NaNBeta
         /\ ValidLong(p) = long_wavelengths(data.wavelength) =>
              ~betas[RowOf(p)].nan

\* a pixel with no valid sample, one with all and one with only some
C15_Witness ==
  /\ pc = "done"
  /\ \E p \in Cells(source_spectrum.mask) : ValidLong(p) = {}
  /\ \E p \in Cells(source_spectrum.mask) :
       /\ ValidLong(p) # {}
       /\ ValidLong(p) # long_wavelengths(data.wavelength)
       /\ ~hotspot_mask[RowOf(p)]

\* cube pixel p has flux = a + b * (wavelength - lambda0) at every sample of
\* the long-wavelength band, with b given per micron
IsLine(p, a, b) ==
  LET long == long_wavelengths(data.wavelength)
  IN \A k \in long :
       file_cube.flux[p[1]][p[2]][k] =
         Num(a + b * (data.wavelength[k] - FirstOf(data.wavelength, long)))

(***************************************************************************)
(* C16: for a pixel whose band samples are all valid and lie exactly on    *)
(* flux = a + b * (lambda - lambda0), lambda0 the first wavelength of the  *)
(* band, the fit returns a in the slot plotted as flux and the slope       *)
(* in the slot plotted as 'Spectral slope'.  The fit runs against          *)
(* wavelength offsets in Angstrom, so a slope of b per micron comes back   *)
(* as b / 10000 per Angstrom.                                              *)
(***************************************************************************)
C16_FitRecoversLine ==
  betas # <<>> =>
    \A p \in Cells(source_spectrum.mask) :
      \A b \in Slopes :
        LET a == file_cube.flux[p[1]][p[2]][
                   CHOOSE k \in ValidLong(p) : \A j \in ValidLong(p) : k <= j].val
        IN (ValidLong(p) = long_wavelengths(data.wavelength) /\ IsLine(p, a, b))
           => /\ ~betas[RowOf(p)].nan
              /\ RatEq(plotted_flux(betas[RowOf(p)]), Rat(a, 1))
              /\ RatEq(plotted_slope(betas[RowOf(p)]), Rat(b, AAPerMicron))

\* a fitted pixel on a line with offset 3 and a nonzero slope
C16_Witness ==
  /\ pc = "done"
  /\ \E p \in Cells(source_spectrum.mask) : \E b \in Slopes \ {0} :
       /\ ValidLong(p) = long_wavelengths(data.wavelength)
       /\ IsLine(p, 3, b)
       /\ RatEq(plotted_flux(betas[RowOf(p)]), Rat(3, 1))

(***************************************************************************)
(* C19 as stated: for a pixel with some valid and some masked samples in   *)
(* the band, the coefficients are those of the least-squares line through  *)
(* its valid samples alone.                                                *)
(***************************************************************************)
C19_MaskedSamplesExcluded ==
  betas # <<>> =>
    \A p \in Cells(source_spectrum.mask) :
      LET long == long_wavelengths(data.wavelength)
          fit == ols(data.wavelength, FirstOf(data.wavelength, long),
                     ValidLong(p), file_cube.flux[p[1]][p[2]])
      IN (ValidLong(p) # long /\ Cardinality(ValidLong(p)) >= 2)
         => /\ ~betas[RowOf(p)].nan
            /\ RatEq(plotted_flux(betas[RowOf(p)]), fit.offset)
            /\ RatEq(plotted_slope(betas[RowOf(p)]), fit.slope)

\* the samples of wavelength slice k that are valid in the file and selected
\* by the subset, and the sum of their flux as stored in the file
ValidAt(k) == {p \in Pixels : ~Invalid(p[1], p[2], k)}
RECURSIVE FileSum(_, _)
FileSum(S, k) ==
  IF S = {} THEN 0
  ELSE LET p == CHOOSE q \in S : TRUE
       IN file_cube.flux[p[1]][p[2]][k].val + FileSum(S \ {p}, k)
MaxValid ==
  CHOOSE m \in {Cardinality(ValidAt(k)) : k \in 1..Len(data.wavelength)} :
    \A k \in 1..Len(data.wavelength) : Cardinality(ValidAt(k)) <= m

(***************************************************************************)
(* C20: for each wavelength slice, masked_spectrum_flux is the sum of the  *)
(* valid samples times (largest valid-sample count of any slice) / (this   *)
(* slice's count): a slice with the largest count keeps its plain sum, a   *)
(* slice with fewer valid samples is scaled up in proportion, and a slice  *)
(* with no valid sample (count 0) is NaN.                                  *)
(***************************************************************************)
C20_FluxScaledByCount ==
  masked_spectrum_flux # <<>> =>
    /\ Len(masked_spectrum_flux) = Len(data.wavelength)
    /\ \A k \in 1..Len(data.wavelength) :
         LET n == Cardinality(ValidAt(k))
             f == masked_spectrum_flux[k]
         IN /\ count[k] = n
            /\ IF n = 0 THEN f.nan
               ELSE /\ ~f.nan
                    /\ RatEq(Rat(f.num, f.den),
                             Rat(FileSum(ValidAt(k), k) * MaxValid, n))
                    /\ n = MaxValid => f.num = FileSum(ValidAt(k), k) * f.den

C20_Witness ==
  /\ pc = "done"
  /\ masked_spectrum_flux # <<>>
  /\ \E k, j \in 1..Len(count) :
       /\ count[k] > 0
       /\ count[k] < count[j]
       /\ ~masked_spectrum_flux[k].nan

(***************************************************************************)
(* C17: during and after the subset-creation loop on a freshly loaded cube *)
(* the i-th subset ("Subset i", subsets are labelled by creation order) is *)
(* the i-th interval, intervals ascending in wavelength; a selection never *)
(* changes a subset made by an earlier iteration; the i-th bandpass is the *)
(* cube masked outside the i-th interval; and when the loop is over there  *)
(* are exactly n_subsets subsets and bandpasses.                           *)
(***************************************************************************)
C17_OneSubsetPerInterval ==
  /\ Len(subsets) <= n_subsets
  /\ Len(bandpasses) <= Len(subsets)
  /\ \A i \in 1..Len(subsets) : subsets[i] = subset_bounds[i]
  /\ \A i \in 1..(Len(subsets) - 1) :
       /\ RatLt(subsets[i][1], subsets[i + 1][1])
       /\ RatLe(subsets[i][2], subsets[i + 1][1])
  /\ \A i \in 1..Len(bandpasses) :
       /\ bandpasses[i].data = data.flux
       /\ \A a \in 1..Len(data.flux) : \A b \in 1..Len(data.flux[a]) :
            \A k \in 1..Len(data.wavelength) :
              ~bandpasses[i].mask[a][b][k]
                <=> /\ RatLe(subset_bounds[i][1], Rat(data.wavelength[k], 1))
                    /\ RatLe(Rat(data.wavelength[k], 1), subset_bounds[i][2])
  /\ (pc = "collapse" \/ "collapse" \in executed) =>
       /\ Len(subsets) = n_subsets
       /\ Len(bandpasses) = n_subsets

C17_Witness ==
  /\ pc = "collapse"
  /\ n_subsets >= 3
  /\ Len(subsets) = n_subsets
  /\ Len(bandpasses) = n_subsets
  /\ edit_subset = n_subsets

(***************************************************************************)
(* The model-fitting cell run again in the same kernel                     *)
(***************************************************************************)
\* the parameters the plugin shows after a fit: the values that were set, or
\* the fitted values written back into the components; the fixed flags stay
ShownAfterFit ==
  {plugin,
   [l \in DOMAIN plugin |->
      [temperature |-> [value |-> fit_result[l].temperature,
                        fixed |-> plugin[l].temperature.fixed],
       scale |-> [value |-> fit_result[l].scale,
                  fixed |-> plugin[l].scale.fixed]]]}

\* the kernel when the cell that builds fit_params starts: the cube is
\* downloaded and loaded
InitConfig ==
  /\ pc = "params"
  /\ StatsKernelInit
  /\ NoInteraction
  /\ error = "none"
  /\ failed_at = "none"
  /\ executed = {"download", "load"}
  /\ run = 1
  /\ cached = 1
  /\ fetches = 1
  /\ file_cube = [wavelength |-> [k \in 1..NWave |-> k],
                  flux |-> OnesFlux(NX, NY, NWave)]
  /\ n_subsets = 5
  /\ data = file_cube
  /\ fit_params = <<>>
  /\ plugin = <<>>
  /\ ci = <<1, 0>>
  /\ api_log = <<>>
  /\ fit_calls = 0
  /\ fit_result = <<>>
  /\ subset_edges = <<>>
  /\ subset_bounds = <<>>
  /\ subsets = <<>>
  /\ edit_subset = 0
  /\ bandpasses = <<>>
  /\ collapsed_images = <<>>

\* the cell is executed again after it ran to its end: the plugin object is
\* the same one, the loop starts over at the first component
RerunConfig ==
  /\ pc = NextStagePc("fit")
  /\ fit_calls < MaxRuns
  /\ \E shown \in ShownAfterFit : plugin' = shown
  /\ ci' = <<1, 0>>
  /\ pc' = "config"
  /\ UNCHANGED <<ctlVars, executed, run, fsVars, inVars, data, fit_params,
                 api_log, fit_calls, fit_result, subVars, collapsed_images,
                 statInVars, statVars>>

NextConfig ==
  \/ Params
  \/ ConfigCreate
  \/ ConfigSet
  \/ CalculateFit
  \/ RerunConfig

SpecConfig == InitConfig /\ [][NextConfig]_vars

Creates(label) ==
  {j \in LogIdx : api_log[j].op = "create" /\ api_log[j].label = label}

(***************************************************************************)
(* C18: however many times the configuration loop has run, the plugin      *)
(* holds no component other than BB0, BB1, BB2 and each was created at     *)
(* most once; whenever the loop has just ended (calculate_fit is next) it  *)
(* holds exactly these three, each created exactly once, with temperature  *)
(* fixed and scale free at the values of fit_params.                       *)
(***************************************************************************)
C18_RerunKeepsThreeComponents ==
  /\ DOMAIN plugin \subseteq Labels
  /\ \A l \in Labels : Cardinality(Creates(l)) <= 1
  /\ \A l \in Labels : l \in DOMAIN plugin <=> Creates(l) # {}
  /\ pc = "fit" =>
       /\ DOMAIN plugin = Labels
       /\ \A i \in 1..n_components :
            /\ plugin[component_labels[i]].temperature
                 = [value |-> fit_params[i].temperature, fixed |-> TRUE]
            /\ plugin[component_labels[i]].scale
                 = [value |-> fit_params[i].scale, fixed |-> FALSE]

\* the loop has ended a second time, after a fit that moved every scale
C18_Witness ==
  /\ pc = "fit"
  /\ fit_calls >= 1
  /\ fit_result # <<>>
  /\ \A i \in 1..n_components :
       fit_result[component_labels[i]].scale # fit_params[i].scale
  /\ Cardinality({j \in LogIdx : api_log[j].op = "set"})
       = 2 * n_components * Len(colnames)
  /\ Cardinality({j \in LogIdx : api_log[j].op = "create"}) = n_components
====
